---- MODULE Spec2Model ----
(***************************************************************************)
(* State-machine model of the SearchInterface React component              *)
(* (src/components/ui/SearchInterface.tsx): query building, search,        *)
(* pagination, media playback and file upload.                             *)
(*                                                                         *)
(* Every event handler runs to its first await as one atomic step (the UI  *)
(* thread is single-threaded and React re-renders between events, so a     *)
(* handler always reads the state of the latest render); the code after an *)
(* await is a second step, taken when the awaited promise settles.         *)
(***************************************************************************)
EXTENDS Integers, Sequences, FiniteSets, TLC

\* ------------------------------------------------------------------ bounds

\* Most requests awaiting their response at once.
MaxInFlight == 1
\* Most images uploaded or being converted.
MaxImages == 1
\* Most clicks whose play() promise is still pending.
MaxPending == 1
\* Most media events queued for delivery.
MaxEvents == 1

\* ------------------------------------------------------- program constants

pageSize == 10

ValidationMsg == "Please enter a search term or upload files"
NoResultsMsg == "No results found. Try adjusting your search."
SearchErrorMsg == "An unexpected error occurred while searching"
PageErrorMsg == "An error occurred while fetching more results"
SkippedMsg == "Some files were skipped. Please upload only JPG or PNG files"
FileErrorMsg == "Failed to process one or more files"

validImageTypes == {"image/jpeg", "image/png", "image/jpg"}

\* activeVideoId = null
Null == "null"

\* ------------------------------------------------------------ value spaces

SP == " "

\* The texts the user types, as sequences of characters: empty, blank, and a
\* word typed after a space.
Texts == {<<>>, <<SP>>, <<SP, "a">>}

\* Files offered by the file picker (File objects: name and declared type).
Files ==
    { [name |-> "a.jpg", type |-> "image/jpeg"],
      [name |-> "c.gif", type |-> "image/gif"] }

\* Result ids and the results the server knows under them; NoStart stands
\* for an undefined startTime.
Ids == {"r1", "r2"}
NoStart == -1
startTime(id) == IF id = "r1" THEN 5 ELSE NoStart

\* Bodies of the server's responses: a success body is a SearchResponse,
\* a non-success body is a text.
OkBodies ==
    { [results |-> <<>>, currentPage |-> 1, totalPages |-> 0, totalResults |-> 0],
      [results |-> <<"r1", "r2">>, currentPage |-> 1, totalPages |-> 2, totalResults |-> 25],
      [results |-> <<"r2">>, currentPage |-> 2, totalPages |-> 2, totalResults |-> 25] }
ErrorBodies == {"Internal Server Error", "rate limited"}

\* ------------------------------------------------------------------- state

VARIABLES
    \* React state of the component
    searchTerm, hasSearched, results, loading, error,
    activeVideoId, isPlaying, expandedSections,
    selectedFiles, base64Contents,
    currentPage, totalPages, totalResults, lastSearchQueries,
    \* the video elements behind videoRefs.current
    videos,
    \* asynchronous work in progress
    inflight,        \* fetches awaiting their response, in issue order
    pendingPlays,    \* handleVideoClick calls awaiting video.play()
    mediaEvents,     \* play/pause events queued by the media elements
    pendingBatches,  \* handleFileSelect calls awaiting Promise.all
    \* observation of the run
    last,            \* the handler step taken last
    sent             \* what was transmitted since the last search call

reactVars ==
    <<searchTerm, hasSearched, results, loading, error, activeVideoId,
      isPlaying, expandedSections, selectedFiles, base64Contents,
      currentPage, totalPages, totalResults, lastSearchQueries>>
envVars == <<videos, inflight, pendingPlays, mediaEvents, pendingBatches>>
vars == <<reactVars, envVars, last, sent>>

searchVars ==
    <<hasSearched, results, loading, error, currentPage, totalPages,
      totalResults, lastSearchQueries>>
playVars == <<activeVideoId, isPlaying, videos, pendingPlays, mediaEvents>>
fileVars == <<selectedFiles, base64Contents, pendingBatches>>

\* ----------------------------------------------------------------- helpers

\* {...prev, [k]: v}
Put(f, k, v) == [x \in (DOMAIN f) \cup {k} |-> IF x = k THEN v ELSE f[x]]

\* prev.filter((_, i) => i !== index), index counted from 0
RemoveAt(s, index) ==
    [i \in 1..(Len(s) - (IF index + 1 \in 1..Len(s) THEN 1 ELSE 0)) |->
        IF i < index + 1 THEN s[i] ELSE s[i + 1]]

\* String.prototype.trim: strip leading and trailing white space.
RECURSIVE TrimLeft(_)
TrimLeft(t) ==
    IF t # <<>> /\ Head(t) = SP THEN TrimLeft(Tail(t)) ELSE t
RECURSIVE TrimRight(_)
TrimRight(t) ==
    IF t # <<>> /\ t[Len(t)] = SP THEN TrimRight(SubSeq(t, 1, Len(t) - 1)) ELSE t
Trim(t) == TrimRight(TrimLeft(t))

\* Mutant: the image queries are pushed before the text query.
BuildQueries_ImagesFirst(term, contents) ==
    [i \in 1..Len(contents) |->
        [type |-> "base64", value |-> contents[i].base64,
         embedding_model |-> "multimodal"]]
    \o (IF Trim(term) # <<>>
          THEN << [type |-> "text", value |-> term, embedding_model |-> "multimodal"] >>
          ELSE << >>)

\* The queries array handleSearch builds from the input.
BuildQueries(term, contents) ==
    (IF Trim(term) # <<>>
        THEN << [type |-> "text", value |-> term, embedding_model |-> "multimodal"] >>
        ELSE << >>)
    \o [i \in 1..Len(contents) |->
          [type |-> "base64", value |-> contents[i].base64,
           embedding_model |-> "multimodal"]]

\* The body of the POST to /api/search.
SearchPayload(kind, queries, page) ==
    [kind |-> kind, queries |-> queries, page |-> page, page_size |-> pageSize]

\* What has been transmitted since handleSearch was last called: the queries
\* of its request (none when it sent no request), and how far the page
\* changes since have come in the sequence goToPage(2), goToPage(1).
NoneSent == [search |-> FALSE, queries |-> <<>>, stage |-> 0]
SearchSent(queries) == [search |-> TRUE, queries |-> queries, stage |-> 0]
PageSent(log, page) ==
    [log EXCEPT !.stage =
        IF log.stage = 0 /\ page = 2 THEN 1
        ELSE IF log.stage = 1 /\ page = 1 THEN 2
        ELSE log.stage]

\* ------------------------------------------------------------------- Init

Init ==
    /\ searchTerm = <<>>
    /\ hasSearched = FALSE
    /\ results = <<>>
    /\ loading = FALSE
    /\ error = ""
    /\ activeVideoId = Null
    /\ isPlaying = <<>>
    /\ expandedSections = <<>>
    /\ selectedFiles = <<>>
    /\ base64Contents = <<>>
    /\ currentPage = 1
    /\ totalPages = 0
    /\ totalResults = 0
    /\ lastSearchQueries = <<>>
    /\ videos = [id \in Ids |-> [paused |-> TRUE, currentTime |-> 0]]
    /\ inflight = <<>>
    /\ pendingPlays = <<>>
    /\ mediaEvents = <<>>
    /\ pendingBatches = <<>>
    /\ last = [op |-> "init"]
    /\ sent = NoneSent

\* ------------------------------------------------------------ search input

\* onChange of the text input: setSearchTerm(e.target.value)
SetSearchTerm(t) ==
    /\ t # searchTerm
    /\ searchTerm' = t
    /\ last' = [op |-> "setSearchTerm"]
    /\ UNCHANGED <<searchVars, playVars, fileVars, expandedSections, inflight, sent>>

\* ------------------------------------------------------------ file upload

\* FileReader.readAsDataURL(file): "data:<type>;base64,<content>", held as the
\* parts a split at the comma yields.
ReadAsDataURL(file) ==
    << <<"data:", file.type, ";base64">>,
       IF file.name = "a.jpg" THEN "QUpQRw=="
       ELSE IF file.name = "b.png" THEN "QlBORw=="
       ELSE "Q0dJRg==" >>

\* fileToBase64: base64String.split(",")[1]
fileToBase64(file) == ReadAsDataURL(file)[2]

\* files.filter((file) => validImageTypes.includes(file.type))
ValidFiles(files) == SelectSeq(files, LAMBDA f : f.type \in validImageTypes)

\* handleFileSelect(e) up to the await of Promise.all; files is e.target.files.
\* With no valid file Promise.all([]) is already resolved and nothing is added.
HandleFileSelect(files) ==
    /\ files # <<>>
    /\ error' = IF Len(ValidFiles(files)) # Len(files) THEN SkippedMsg ELSE error
    /\ pendingBatches' =
         IF ValidFiles(files) # <<>> THEN Append(pendingBatches, ValidFiles(files))
         ELSE pendingBatches
    /\ last' = [op |-> "handleFileSelect"]
    /\ UNCHANGED <<searchTerm, hasSearched, results, loading, currentPage, totalPages,
                   totalResults, lastSearchQueries, selectedFiles, base64Contents,
                   playVars, expandedSections, inflight, sent>>

\* Every conversion of the batch has resolved: the statements after the await.
FileBatchDone(b) ==
    /\ b \in DOMAIN pendingBatches
    /\ selectedFiles' = selectedFiles \o pendingBatches[b]
    /\ base64Contents' = base64Contents \o
         [i \in 1..Len(pendingBatches[b]) |->
            [file |-> pendingBatches[b][i], base64 |-> fileToBase64(pendingBatches[b][i])]]
    /\ pendingBatches' = RemoveAt(pendingBatches, b - 1)
    /\ last' = [op |-> "fileBatchDone"]
    /\ UNCHANGED <<searchTerm, searchVars, playVars, expandedSections, inflight, sent>>

\* Mutant: the files of a failed batch are listed all the same.
FileBatchFailed_KeepsFiles(b) ==
    /\ b \in DOMAIN pendingBatches
    /\ error' = FileErrorMsg
    /\ selectedFiles' = selectedFiles \o pendingBatches[b]
    /\ pendingBatches' = RemoveAt(pendingBatches, b - 1)
    /\ last' = [op |-> "fileBatchFailed", batch |-> pendingBatches[b]]
    /\ UNCHANGED <<searchTerm, hasSearched, results, loading, currentPage, totalPages,
                   totalResults, lastSearchQueries, base64Contents,
                   playVars, expandedSections, inflight, sent>>

\* A conversion of the batch has failed (reader.onerror): the catch block.
FileBatchFailed(b) ==
    /\ b \in DOMAIN pendingBatches
    /\ error' = FileErrorMsg
    /\ pendingBatches' = RemoveAt(pendingBatches, b - 1)
    /\ last' = [op |-> "fileBatchFailed", batch |-> pendingBatches[b]]
    /\ UNCHANGED <<searchTerm, hasSearched, results, loading, currentPage, totalPages,
                   totalResults, lastSearchQueries, selectedFiles, base64Contents,
                   playVars, expandedSections, inflight, sent>>

\* Mutant: the image is removed from base64Contents only.
removeImage_ContentsOnly(index) ==
    /\ index \in 0..(Len(base64Contents) - 1)
    /\ base64Contents' = RemoveAt(base64Contents, index)
    /\ last' = [op |-> "removeImage"]
    /\ UNCHANGED <<searchTerm, searchVars, playVars, pendingBatches, selectedFiles,
                   expandedSections, inflight, sent>>

\* removeImage(index), from the button on the image at index
removeImage(index) ==
    /\ index \in 0..(Len(base64Contents) - 1)
    /\ selectedFiles' = RemoveAt(selectedFiles, index)
    /\ base64Contents' = RemoveAt(base64Contents, index)
    /\ last' = [op |-> "removeImage"]
    /\ UNCHANGED <<searchTerm, searchVars, playVars, pendingBatches,
                   expandedSections, inflight, sent>>

\* onClick of Remove All, rendered while base64Contents is not empty
RemoveAll ==
    /\ Len(base64Contents) > 0
    /\ selectedFiles' = <<>>
    /\ base64Contents' = <<>>
    /\ last' = [op |-> "removeAll"]
    /\ UNCHANGED <<searchTerm, searchVars, playVars, pendingBatches,
                   expandedSections, inflight, sent>>

\* ---------------------------------------------------------- media elements

\* A <video> element as first mounted.
FreshVideo == [paused |-> TRUE, currentTime |-> 0]

IdOrder == <<"r1", "r2">>
IdsOf(rs) == {rs[i] : i \in DOMAIN rs}

\* The elements that are playing (video.paused is false).
Unpaused(vs) == {id \in Ids : ~vs[id].paused}

\* video.pause() on each element of S: paused becomes true, ...
PauseEach(vs, S) ==
    [id \in Ids |-> IF id \in S THEN [vs[id] EXCEPT !.paused = TRUE] ELSE vs[id]]
\* ... a pause event is queued for it, ...
PauseEvents(S) ==
    LET ids == SelectSeq(IdOrder, LAMBDA id : id \in S)
    IN [i \in 1..Len(ids) |-> [type |-> "pause", id |-> ids[i]]]
\* ... and its pending play() promises are rejected (AbortError).
Aborted(plays, S) ==
    [i \in DOMAIN plays |->
        IF plays[i].id \in S THEN [plays[i] EXCEPT !.status = "aborted"]
        ELSE plays[i]]

\* Elements of results no longer rendered leave the document: the browser
\* pauses them, their queued events reach no handler, and a result rendered
\* again under the same id gets a new element.
Unmount(vs, gone) == [id \in Ids |-> IF id \in gone THEN FreshVideo ELSE vs[id]]
DropEvents(ev, gone) == SelectSeq(ev, LAMBDA e : e.id \notin gone)

\* ------------------------------------------------------------------ search

\* Mutant: the playing flags are not cleared.
ResetPlaybackAndShow_KeepPlaying(newResults) ==
    LET S == Unpaused(videos)
        gone == IdsOf(results) \ IdsOf(newResults)
    IN /\ activeVideoId' = Null
       /\ UNCHANGED isPlaying
       /\ videos' = Unmount(PauseEach(videos, S), gone)
       /\ mediaEvents' = DropEvents(mediaEvents \o PauseEvents(S), gone)
       /\ pendingPlays' = Aborted(pendingPlays, S)

\* The playback reset of a success response, then the new result list
\* rendered: Object.values(videoRefs.current).forEach(pause if playing);
\* setActiveVideoId(null); setIsPlaying({}); setResults(data.results).
ResetPlaybackAndShow(newResults) ==
    LET S == Unpaused(videos)
        gone == IdsOf(results) \ IdsOf(newResults)
    IN /\ activeVideoId' = Null
       /\ isPlaying' = <<>>
       /\ videos' = Unmount(PauseEach(videos, S), gone)
       /\ mediaEvents' = DropEvents(mediaEvents \o PauseEvents(S), gone)
       /\ pendingPlays' = Aborted(pendingPlays, S)

\* setResults([]) of a catch block: every result element leaves the document,
\* the playback state is left as it is.
ShowNothing ==
    LET gone == IdsOf(results)
    IN /\ videos' = Unmount(videos, gone)
       /\ mediaEvents' = DropEvents(mediaEvents, gone)
       /\ pendingPlays' = Aborted(pendingPlays, gone \cap Unpaused(videos))
       /\ UNCHANGED <<activeVideoId, isPlaying>>

\* Mutant: the pagination is not reset.
SearchCatch_KeepPages ==
    /\ error' = SearchErrorMsg
    /\ results' = <<>>
    /\ loading' = FALSE
    /\ ShowNothing
    /\ UNCHANGED <<currentPage, totalPages, totalResults>>

\* The catch and finally blocks of handleSearch.
SearchCatch ==
    /\ error' = SearchErrorMsg
    /\ results' = <<>>
    /\ currentPage' = 1
    /\ totalPages' = 0
    /\ totalResults' = 0
    /\ loading' = FALSE
    /\ ShowNothing

\* Mutant: the test made on the untrimmed text.
SearchInputEmpty_NoTrim == searchTerm = <<>> /\ base64Contents = <<>>

\* if (!searchTerm.trim() && base64Contents.length === 0)
SearchInputEmpty == Trim(searchTerm) = <<>> /\ base64Contents = <<>>

\* handleSearch() from the Enter key of the text input, up to the await of
\* fetch: page takes its default.
HandleSearch(page) ==
    /\ IF SearchInputEmpty
       THEN /\ last' = [op |-> "handleSearch", via |-> "enter", accepted |-> FALSE]
            /\ error' = ValidationMsg
            /\ UNCHANGED <<hasSearched, results, loading, currentPage, totalPages,
                           totalResults, lastSearchQueries, inflight, sent>>
       ELSE LET queries == BuildQueries(searchTerm, base64Contents)
                req == SearchPayload("search", queries, page)
            IN /\ last' = [op |-> "handleSearch", via |-> "enter",
                           accepted |-> TRUE, req |-> req]
               /\ loading' = TRUE
               /\ error' = ""
               /\ hasSearched' = TRUE
               /\ lastSearchQueries' = queries
               /\ inflight' = Append(inflight, req)
               /\ sent' = SearchSent(req.queries)
               /\ UNCHANGED <<results, currentPage, totalPages, totalResults>>
    /\ UNCHANGED <<searchTerm, playVars, fileVars, expandedSections>>

\* onClick={handleSearch} of the Search button (disabled while loading): the
\* click event is passed as page, and JSON.stringify of a payload holding the
\* event (its view is the window, which refers to itself) throws inside the
\* try block before fetch is called, so the catch block runs at once.
HandleSearchClick ==
    /\ ~loading
    /\ last' = [op |-> "handleSearch", via |-> "button", accepted |-> ~SearchInputEmpty]
    /\ IF SearchInputEmpty
       THEN /\ error' = ValidationMsg
            /\ UNCHANGED <<hasSearched, results, loading, currentPage, totalPages,
                           totalResults, lastSearchQueries, sent, playVars>>
       ELSE /\ hasSearched' = TRUE
            /\ lastSearchQueries' = BuildQueries(searchTerm, base64Contents)
            /\ sent' = NoneSent
            /\ SearchCatch
    /\ UNCHANGED <<searchTerm, fileVars, expandedSections, inflight>>

\* Mutant: the error is not cleared before the notice is considered.
ErrorAfterSuccess_Keep(data) == IF Len(data.results) = 0 THEN NoResultsMsg ELSE error
\* Mutant: no notice for an empty result list.
ErrorAfterSuccess_NoNotice(data) == ""

\* setError(""), then setError of the notice when data.results is empty
ErrorAfterSuccess(data) == IF Len(data.results) = 0 THEN NoResultsMsg ELSE ""

\* Mutant: a response is ignored when a request issued later is pending.
SearchSuccess_DropStale(i, data) ==
    /\ i \in DOMAIN inflight
    /\ inflight[i].kind = "search"
    /\ inflight' = RemoveAt(inflight, i - 1)
    /\ last' = [op |-> "searchResponse", ok |-> TRUE, data |-> data,
                queries |-> inflight[i].queries]
    /\ IF i < Len(inflight)
       THEN UNCHANGED <<results, currentPage, totalPages, totalResults, error,
                        loading, playVars>>
       ELSE /\ ResetPlaybackAndShow(data.results)
            /\ results' = data.results
            /\ currentPage' = data.currentPage
            /\ totalPages' = data.totalPages
            /\ totalResults' = data.totalResults
            /\ error' = ErrorAfterSuccess(data)
            /\ loading' = FALSE
    /\ UNCHANGED <<searchTerm, hasSearched, lastSearchQueries, fileVars,
                   expandedSections, sent>>

\* The response of a search request is a success: the rest of the try block
\* and the finally block.
SearchSuccess(i, data) ==
    /\ i \in DOMAIN inflight
    /\ inflight[i].kind = "search"
    /\ inflight' = RemoveAt(inflight, i - 1)
    /\ ResetPlaybackAndShow(data.results)
    /\ results' = data.results
    /\ currentPage' = data.currentPage
    /\ totalPages' = data.totalPages
    /\ totalResults' = data.totalResults
    /\ error' = ErrorAfterSuccess(data)
    /\ loading' = FALSE
    /\ last' = [op |-> "searchResponse", ok |-> TRUE, data |-> data,
                queries |-> inflight[i].queries]
    /\ UNCHANGED <<searchTerm, hasSearched, lastSearchQueries, fileVars,
                   expandedSections, sent>>

\* The response of a search request is not ok (throw new Error(await
\* response.text())), or fetch itself rejects: catch and finally.
SearchFailure(i, text) ==
    /\ i \in DOMAIN inflight
    /\ inflight[i].kind = "search"
    /\ inflight' = RemoveAt(inflight, i - 1)
    /\ SearchCatch
    /\ last' = [op |-> "searchResponse", ok |-> FALSE, text |-> text]
    /\ UNCHANGED <<searchTerm, hasSearched, lastSearchQueries, fileVars,
                   expandedSections, sent>>

\* -------------------------------------------------------------- pagination

\* Mutant: no test against totalPages.
PageChangeRefused_NoUpper(newPage) == newPage < 1 \/ loading

\* if (newPage < 1 || newPage > totalPages || loading) return;
PageChangeRefused(newPage) == newPage < 1 \/ newPage > totalPages \/ loading

\* Mutant: the queries rebuilt from the current input.
PageQueries_Live == BuildQueries(searchTerm, base64Contents)

\* queries: lastSearchQueries of the page request's payload
PageQueries == lastSearchQueries

\* handlePageChange(newPage) up to the await of fetch.
HandlePageChange(newPage) ==
    /\ IF PageChangeRefused(newPage)
       THEN /\ last' = [op |-> "handlePageChange", newPage |-> newPage,
                        accepted |-> FALSE]
            /\ UNCHANGED <<loading, inflight, sent>>
       ELSE LET req == SearchPayload("page", PageQueries, newPage)
            IN /\ last' = [op |-> "handlePageChange", newPage |-> newPage,
                           accepted |-> TRUE, req |-> req]
               /\ loading' = TRUE
               /\ inflight' = Append(inflight, req)
               /\ sent' = PageSent(sent, req.page)
    /\ UNCHANGED <<searchTerm, hasSearched, results, error, currentPage, totalPages,
                   totalResults, lastSearchQueries, playVars, fileVars,
                   expandedSections>>

\* The response of a page request is a success.
PageSuccess(i, data) ==
    /\ i \in DOMAIN inflight
    /\ inflight[i].kind = "page"
    /\ inflight' = RemoveAt(inflight, i - 1)
    /\ ResetPlaybackAndShow(data.results)
    /\ results' = data.results
    /\ currentPage' = data.currentPage
    /\ totalPages' = data.totalPages
    /\ totalResults' = data.totalResults
    /\ loading' = FALSE
    /\ last' = [op |-> "pageResponse", ok |-> TRUE, data |-> data,
                queries |-> inflight[i].queries]
    /\ UNCHANGED <<searchTerm, hasSearched, error, lastSearchQueries, fileVars,
                   expandedSections, sent>>

\* Mutant: the body text of the response is shown.
PageFailure_Verbatim(i, text) ==
    /\ i \in DOMAIN inflight
    /\ inflight[i].kind = "page"
    /\ inflight' = RemoveAt(inflight, i - 1)
    /\ error' = text
    /\ loading' = FALSE
    /\ last' = [op |-> "pageResponse", ok |-> FALSE, text |-> text]
    /\ UNCHANGED <<searchTerm, hasSearched, results, currentPage, totalPages,
                   totalResults, lastSearchQueries, playVars, fileVars,
                   expandedSections, sent>>

\* Mutant: a failed page change leaves loading set.
PageFailure_StillLoading(i, text) ==
    /\ i \in DOMAIN inflight
    /\ inflight[i].kind = "page"
    /\ inflight' = RemoveAt(inflight, i - 1)
    /\ error' = PageErrorMsg
    /\ last' = [op |-> "pageResponse", ok |-> FALSE, text |-> text]
    /\ UNCHANGED <<searchTerm, hasSearched, results, currentPage, totalPages,
                   totalResults, lastSearchQueries, playVars, fileVars,
                   expandedSections, sent, loading>>

\* Mutant: a failed page change resets the results as a failed search does.
PageFailure_Reset(i, text) ==
    /\ i \in DOMAIN inflight
    /\ inflight[i].kind = "page"
    /\ inflight' = RemoveAt(inflight, i - 1)
    /\ error' = PageErrorMsg
    /\ results' = <<>>
    /\ currentPage' = 1
    /\ totalPages' = 0
    /\ totalResults' = 0
    /\ loading' = FALSE
    /\ ShowNothing
    /\ last' = [op |-> "pageResponse", ok |-> FALSE, text |-> text]
    /\ UNCHANGED <<searchTerm, hasSearched, lastSearchQueries, fileVars,
                   expandedSections, sent>>

\* The response of a page request is not ok, or fetch rejects.
PageFailure(i, text) ==
    /\ i \in DOMAIN inflight
    /\ inflight[i].kind = "page"
    /\ inflight' = RemoveAt(inflight, i - 1)
    /\ error' = PageErrorMsg
    /\ loading' = FALSE
    /\ last' = [op |-> "pageResponse", ok |-> FALSE, text |-> text]
    /\ UNCHANGED <<searchTerm, hasSearched, results, currentPage, totalPages,
                   totalResults, lastSearchQueries, playVars, fileVars,
                   expandedSections, sent>>

\* ---------------------------------------------------------------- playback

\* Mutant: result.startTime without its default.
StartOrZero_Raw(id) == startTime(id)

\* result.startTime || 0
StartOrZero(id) == IF startTime(id) = NoStart THEN 0 ELSE startTime(id)

\* The position of a video that has played to its end.
EndTime == 9

\* The media events of one element are delivered in the order they were
\* queued: the event at index k is next when none before it is of its element.
NextEvent(k) ==
    /\ k \in DOMAIN mediaEvents
    /\ \A j \in 1..(k - 1) : mediaEvents[j].id # mediaEvents[k].id

\* A settled play() promise resumes its handler after the events its element
\* queued before.
NoEventOf(id) == \A k \in DOMAIN mediaEvents : mediaEvents[k].id # id

\* A click on another control, or a play event of the result a pending click
\* switched from, comes between that click and its continuation.
Disturbed(plays, clicked, replayed) ==
    [i \in DOMAIN plays |->
        IF clicked \/ plays[i].from = replayed
        THEN [plays[i] EXCEPT !.quiet = FALSE] ELSE plays[i]]

\* video.play() on a paused element unpauses it and queues a play event.
PlayEvents(id) ==
    IF videos[id].paused THEN << [type |-> "play", id |-> id] >> ELSE << >>

\* handleVideoClick(resultId, result) with activeVideoId === resultId and
\* video.paused: await video.play().
ClickResume(resultId) ==
    /\ activeVideoId = resultId
    /\ videos[resultId].paused
    /\ Len(pendingPlays) < MaxPending
    /\ videos' = [videos EXCEPT ![resultId].paused = FALSE]
    /\ mediaEvents' = mediaEvents \o PlayEvents(resultId)
    /\ pendingPlays' =
         Append(Disturbed(pendingPlays, TRUE, Null),
                [id |-> resultId, branch |-> "resume", status |-> "pending",
                 from |-> Null, fromPlaying |-> FALSE, quiet |-> TRUE])
    /\ last' = [op |-> "handleVideoClick", id |-> resultId, branch |-> "resume",
                from |-> Null, started |-> TRUE]
    /\ UNCHANGED <<activeVideoId, isPlaying>>

\* Mutant: pausing the active result makes no result active.
ClickPause_Deactivate(resultId) ==
    /\ activeVideoId = resultId
    /\ ~videos[resultId].paused
    /\ videos' = PauseEach(videos, {resultId})
    /\ mediaEvents' = mediaEvents \o PauseEvents({resultId})
    /\ pendingPlays' = Aborted(Disturbed(pendingPlays, TRUE, Null), {resultId})
    /\ isPlaying' = Put(isPlaying, resultId, FALSE)
    /\ last' = [op |-> "handleVideoClick", id |-> resultId, branch |-> "pause",
                from |-> Null, started |-> FALSE]
    /\ activeVideoId' = Null

\* ... with activeVideoId === resultId and the video playing: video.pause().
ClickPause(resultId) ==
    /\ activeVideoId = resultId
    /\ ~videos[resultId].paused
    /\ videos' = PauseEach(videos, {resultId})
    /\ mediaEvents' = mediaEvents \o PauseEvents({resultId})
    /\ pendingPlays' = Aborted(Disturbed(pendingPlays, TRUE, Null), {resultId})
    /\ isPlaying' = Put(isPlaying, resultId, FALSE)
    /\ last' = [op |-> "handleVideoClick", id |-> resultId, branch |-> "pause",
                from |-> Null, started |-> FALSE]
    /\ UNCHANGED activeVideoId

\* ... with another result, or none, active: pause the previously active
\* video, seek to the segment start, await video.play().
ClickSwitch(resultId) ==
    LET prev == IF activeVideoId # Null THEN {activeVideoId} ELSE {}
        S == prev \cap Unpaused(videos)
        paused == PauseEach(videos, S)
    IN /\ activeVideoId # resultId
       /\ Len(pendingPlays) < MaxPending
       /\ isPlaying' =
            IF activeVideoId # Null THEN Put(isPlaying, activeVideoId, FALSE)
            ELSE isPlaying
       /\ videos' = [paused EXCEPT ![resultId] =
                        [paused |-> FALSE, currentTime |-> StartOrZero(resultId)]]
       /\ mediaEvents' = mediaEvents \o PauseEvents(S) \o PlayEvents(resultId)
       /\ pendingPlays' =
            Append(Aborted(Disturbed(pendingPlays, TRUE, Null), S),
                   [id |-> resultId, branch |-> "switch", status |-> "pending",
                    from |-> activeVideoId,
                    fromPlaying |-> /\ activeVideoId \in DOMAIN isPlaying
                                    /\ isPlaying[activeVideoId],
                    quiet |-> TRUE])
       /\ last' = [op |-> "handleVideoClick", id |-> resultId, branch |-> "switch",
                   from |-> activeVideoId, started |-> TRUE]
       /\ UNCHANGED activeVideoId

\* ... with video.play() returning a promise already rejected (the element
\* holds media it cannot play): nothing is queued, and the catch block runs
\* right after the handler's first part.
ClickResumeRefused(resultId) ==
    /\ activeVideoId = resultId
    /\ videos[resultId].paused
    /\ isPlaying' = Put(isPlaying, resultId, FALSE)
    /\ pendingPlays' = Disturbed(pendingPlays, TRUE, Null)
    /\ last' = [op |-> "handleVideoClick", id |-> resultId, branch |-> "resume",
                from |-> Null, started |-> FALSE]
    /\ UNCHANGED <<activeVideoId, videos, mediaEvents>>

ClickSwitchRefused(resultId) ==
    LET prev == IF activeVideoId # Null THEN {activeVideoId} ELSE {}
        S == prev \cap Unpaused(videos)
        paused == PauseEach(videos, S)
        marked == IF activeVideoId # Null THEN Put(isPlaying, activeVideoId, FALSE)
                  ELSE isPlaying
    IN /\ activeVideoId # resultId
       /\ videos[resultId].paused
       /\ isPlaying' = Put(marked, resultId, FALSE)
       /\ videos' = [paused EXCEPT ![resultId].currentTime = StartOrZero(resultId)]
       /\ mediaEvents' = mediaEvents \o PauseEvents(S)
       /\ pendingPlays' = Aborted(Disturbed(pendingPlays, TRUE, Null), S)
       /\ last' = [op |-> "handleVideoClick", id |-> resultId, branch |-> "switch",
                   from |-> activeVideoId, started |-> FALSE]
       /\ UNCHANGED activeVideoId

\* onClick of the play control of a displayed result.
HandleVideoClick(resultId) ==
    /\ resultId \in IdsOf(results)
    /\ Len(mediaEvents) < MaxEvents
    /\ \/ ClickResume(resultId)
       \/ ClickResumeRefused(resultId)
       \/ ClickPause(resultId)
       \/ ClickSwitch(resultId)
       \/ ClickSwitchRefused(resultId)
    /\ UNCHANGED <<searchTerm, searchVars, fileVars, expandedSections, inflight, sent>>

\* await video.play() returns: the statements after it.
PlayResolved(i) ==
    /\ i \in DOMAIN pendingPlays
    /\ pendingPlays[i].status = "pending"
    /\ NoEventOf(pendingPlays[i].id)
    /\ \A j \in 1..(i - 1) : pendingPlays[j].id # pendingPlays[i].id
    /\ activeVideoId' =
         IF pendingPlays[i].branch = "switch" THEN pendingPlays[i].id
         ELSE activeVideoId
    /\ isPlaying' = Put(isPlaying, pendingPlays[i].id, TRUE)
    /\ pendingPlays' = RemoveAt(pendingPlays, i - 1)
    /\ last' = [op |-> "playResolved", play |-> pendingPlays[i]]
    /\ UNCHANGED <<searchTerm, searchVars, fileVars, expandedSections, inflight,
                   sent, videos, mediaEvents>>

\* Mutant: the catch block makes the clicked result active.
PlayRejected_Activates(i) ==
    /\ i \in DOMAIN pendingPlays
    /\ NoEventOf(pendingPlays[i].id)
    /\ \A j \in 1..(i - 1) : pendingPlays[j].id # pendingPlays[i].id
    /\ isPlaying' = Put(isPlaying, pendingPlays[i].id, FALSE)
    /\ activeVideoId' = pendingPlays[i].id
    /\ pendingPlays' = RemoveAt(pendingPlays, i - 1)
    /\ last' = [op |-> "playRejected", play |-> pendingPlays[i]]
    /\ UNCHANGED <<searchTerm, searchVars, fileVars, expandedSections, inflight,
                   sent, videos, mediaEvents>>

\* await video.play() throws: the catch block. The promise was rejected by a
\* pause() (AbortError) or because the media could not be played.
PlayRejected(i) ==
    /\ i \in DOMAIN pendingPlays
    /\ NoEventOf(pendingPlays[i].id)
    /\ \A j \in 1..(i - 1) : pendingPlays[j].id # pendingPlays[i].id
    /\ isPlaying' = Put(isPlaying, pendingPlays[i].id, FALSE)
    /\ pendingPlays' = RemoveAt(pendingPlays, i - 1)
    /\ last' = [op |-> "playRejected", play |-> pendingPlays[i]]
    /\ UNCHANGED <<searchTerm, searchVars, fileVars, expandedSections, inflight,
                   sent, videos, mediaEvents, activeVideoId>>

\* onPlay={() => handlePlay(result.id)}
HandlePlay(k) ==
    /\ NextEvent(k)
    /\ mediaEvents[k].type = "play"
    /\ isPlaying' = Put(isPlaying, mediaEvents[k].id, TRUE)
    /\ mediaEvents' = RemoveAt(mediaEvents, k - 1)
    /\ pendingPlays' = Disturbed(pendingPlays, FALSE, mediaEvents[k].id)
    /\ last' = [op |-> "handlePlay"]
    /\ UNCHANGED <<searchTerm, searchVars, fileVars, expandedSections, inflight,
                   sent, videos, activeVideoId>>

\* onPause={() => handlePause(result.id)}
HandlePause(k) ==
    /\ NextEvent(k)
    /\ mediaEvents[k].type = "pause"
    /\ isPlaying' = Put(isPlaying, mediaEvents[k].id, FALSE)
    /\ mediaEvents' = RemoveAt(mediaEvents, k - 1)
    /\ last' = [op |-> "handlePause"]
    /\ UNCHANGED <<searchTerm, searchVars, fileVars, expandedSections, inflight,
                   sent, videos, activeVideoId, pendingPlays>>

\* A playing video reaches the end of its media: the element pauses itself
\* and queues a pause event.
MediaEnded(id) ==
    /\ id \in IdsOf(results)
    /\ ~videos[id].paused
    /\ \A i \in DOMAIN pendingPlays : pendingPlays[i].id # id
    /\ Len(mediaEvents) < MaxEvents
    /\ videos' = [videos EXCEPT ![id] = [paused |-> TRUE, currentTime |-> EndTime]]
    /\ mediaEvents' = mediaEvents \o PauseEvents({id})
    /\ last' = [op |-> "ended"]
    /\ UNCHANGED <<searchTerm, searchVars, fileVars, expandedSections, inflight,
                   sent, activeVideoId, isPlaying, pendingPlays>>

\* ------------------------------------------------------- section disclosure

Sections == {"description", "transcript"}

\* prev[resultId] || { description: false, transcript: false }
EntryOf(prev, resultId) ==
    IF resultId \in DOMAIN prev THEN prev[resultId]
    ELSE [description |-> FALSE, transcript |-> FALSE]

\* Mutant: the section is expanded, not flipped.
Toggled_Expand(prev, resultId, section) ==
    Put(prev, resultId, [EntryOf(prev, resultId) EXCEPT ![section] = TRUE])

\* The updater of toggleSection:
\* {...prev, [resultId]: {...entry, [section]: !(prev[resultId]?.[section] ?? false)}}
Toggled(prev, resultId, section) ==
    Put(prev, resultId,
        [EntryOf(prev, resultId) EXCEPT
            ![section] = ~(resultId \in DOMAIN prev /\ prev[resultId][section])])

\* toggleSection(resultId, section), from the disclosure button of a section
\* of a displayed result. The observation keeps the map as it was before the
\* call and, when the call before was a toggle of the same pair, before that.
ToggleSection(resultId, section) ==
    /\ resultId \in IdsOf(results)
    /\ expandedSections' = Toggled(expandedSections, resultId, section)
    /\ last' = [op |-> "toggleSection", id |-> resultId, section |-> section,
                before |-> expandedSections,
                twice |-> /\ last.op = "toggleSection"
                          /\ last.id = resultId
                          /\ last.section = section,
                original |-> IF /\ last.op = "toggleSection"
                                /\ last.id = resultId
                                /\ last.section = section
                             THEN last.before ELSE expandedSections]
    /\ UNCHANGED <<searchTerm, searchVars, playVars, fileVars, inflight, sent>>

\* ----------------------------------------------------------- specification

\* The Enter key in the text input, and a page change asked for, while at
\* most `bound` requests are awaiting their response.
EnterKey(bound) ==
    /\ SearchInputEmpty \/ Len(inflight) < bound
    /\ HandleSearch(1)
GoToPage(n, bound) ==
    /\ PageChangeRefused(n) \/ Len(inflight) < bound
    /\ HandlePageChange(n)

\* A file picked in the file input (it takes one file at a time), while the
\* images uploaded and being converted stay within the bounds.
PickFile(f) ==
    /\ Len(base64Contents) + Len(pendingBatches) < MaxImages
    /\ HandleFileSelect(<<f>>)

\* The pages asked for: below the first, the pages the server has, and above
\* the last.
PageArgs == {0, 1, 2, 3}

SearchNext ==
    \/ \E t \in Texts : SetSearchTerm(t)
    \/ \E f \in Files : PickFile(f)
    \/ \E b \in 1..MaxImages : FileBatchDone(b)
    \/ \E b \in 1..MaxImages : FileBatchFailed(b)
    \/ \E index \in 0..(MaxImages - 1) : removeImage(index)
    \/ RemoveAll
    \/ EnterKey(MaxInFlight)
    \/ HandleSearchClick
    \/ \E i \in 1..MaxInFlight, data \in OkBodies : SearchSuccess(i, data)
    \/ \E i \in 1..MaxInFlight, text \in ErrorBodies : SearchFailure(i, text)
    \/ \E n \in PageArgs : GoToPage(n, MaxInFlight)
    \/ \E i \in 1..MaxInFlight, data \in OkBodies : PageSuccess(i, data)
    \/ \E i \in 1..MaxInFlight, text \in ErrorBodies : PageFailure(i, text)

PlaybackNext ==
    \/ \E id \in Ids : HandleVideoClick(id)
    \/ \E i \in 1..MaxPending : PlayResolved(i)
    \/ \E i \in 1..MaxPending : PlayRejected(i)
    \/ \E k \in 1..(MaxEvents + 2) : HandlePlay(k)
    \/ \E k \in 1..(MaxEvents + 2) : HandlePause(k)
    \/ \E id \in Ids : MediaEnded(id)

Next == SearchNext

Spec == Init /\ [][Next]_vars

\* Playback, with the searches and page changes that replace the results.
PlayTexts == {<<SP, "a">>}
PlayPages == {2}
PlayNext ==
    \/ \E t \in PlayTexts : SetSearchTerm(t)
    \/ EnterKey(MaxInFlight)
    \/ \E i \in 1..MaxInFlight, data \in OkBodies : SearchSuccess(i, data)
    \/ \E i \in 1..MaxInFlight : SearchFailure(i, "Internal Server Error")
    \/ \E n \in PlayPages : GoToPage(n, MaxInFlight)
    \/ \E i \in 1..MaxInFlight, data \in OkBodies : PageSuccess(i, data)
    \/ \E i \in 1..MaxInFlight : PageFailure(i, "Internal Server Error")
    \/ PlaybackNext

PlaySpec == Init /\ [][PlayNext]_vars

\* Requests and their completion alone. Every request issued completes: the
\* response of a pending fetch, success or failure, is eventually delivered.
Respond ==
    \/ \E i \in 1..MaxInFlight, data \in OkBodies : SearchSuccess(i, data)
    \/ \E i \in 1..MaxInFlight, text \in ErrorBodies : SearchFailure(i, text)
    \/ \E i \in 1..MaxInFlight, data \in OkBodies : PageSuccess(i, data)
    \/ \E i \in 1..MaxInFlight, text \in ErrorBodies : PageFailure(i, text)
LiveNext ==
    \/ \E t \in Texts : SetSearchTerm(t)
    \/ EnterKey(MaxInFlight)
    \/ HandleSearchClick
    \/ \E n \in PageArgs : GoToPage(n, MaxInFlight)
    \/ Respond

LiveSpec == Init /\ [][LiveNext]_vars /\ WF_vars(Respond)

\* Query building: uploads of several distinct images, and searches made one
\* at a time (the user waits for the response before searching again).
QueryFiles == Files \cup { [name |-> "b.png", type |-> "image/png"] }
QueryImages == MaxImages + 1
PickFileUpTo(f, bound) ==
    /\ Len(base64Contents) + Len(pendingBatches) < bound
    /\ HandleFileSelect(<<f>>)
EnterKeyWhenIdle ==
    /\ SearchInputEmpty \/ inflight = <<>>
    /\ HandleSearch(1)
QueryNext ==
    \/ \E t \in Texts : SetSearchTerm(t)
    \/ \E f \in QueryFiles : PickFileUpTo(f, QueryImages)
    \/ \E b \in 1..QueryImages : FileBatchDone(b)
    \/ \E b \in 1..QueryImages : FileBatchFailed(b)
    \/ \E index \in 0..(QueryImages - 1) : removeImage(index)
    \/ RemoveAll
    \/ EnterKeyWhenIdle
    \/ HandleSearchClick
    \/ \E data \in OkBodies : SearchSuccess(1, data)
    \/ SearchFailure(1, "Internal Server Error")

QuerySpec == Init /\ [][QueryNext]_vars

\* Section disclosure on the results of a search.
ToggleNext ==
    \/ \E t \in PlayTexts : SetSearchTerm(t)
    \/ EnterKeyWhenIdle
    \/ \E data \in OkBodies : SearchSuccess(1, data)
    \/ \E id \in Ids, section \in Sections : ToggleSection(id, section)

ToggleSpec == Init /\ [][ToggleNext]_vars

\* Overlapping requests: the Enter key is not disabled while a request is in
\* flight, and the order of the responses is not that of the requests.
OverlapTexts == {<<"a">>, <<"b">>}
Overlap == MaxInFlight + 1
OverlapNext ==
    \/ \E t \in OverlapTexts : SetSearchTerm(t)
    \/ EnterKey(Overlap)
    \/ \E i \in 1..Overlap, data \in OkBodies : SearchSuccess(i, data)
    \/ \E i \in 1..Overlap : SearchFailure(i, "Internal Server Error")
    \/ \E n \in PlayPages : GoToPage(n, Overlap)
    \/ \E i \in 1..Overlap, data \in OkBodies : PageSuccess(i, data)
    \/ \E i \in 1..Overlap : PageFailure(i, "Internal Server Error")

OverlapSpec == Init /\ [][OverlapNext]_vars

\* Overlapping requests while videos play.
ShownBodies == {data \in OkBodies : data.results # <<>>}
RaceNext ==
    \/ \E t \in PlayTexts : SetSearchTerm(t)
    \/ EnterKey(Overlap)
    \/ \E i \in 1..Overlap, data \in ShownBodies : SearchSuccess(i, data)
    \/ \E i \in 1..Overlap : SearchFailure(i, "Internal Server Error")
    \/ \E n \in PlayPages : GoToPage(n, Overlap)
    \/ \E i \in 1..Overlap, data \in ShownBodies : PageSuccess(i, data)
    \/ \E i \in 1..Overlap : PageFailure(i, "Internal Server Error")
    \/ \E id \in Ids : HandleVideoClick(id)
    \/ \E i \in 1..MaxPending : PlayResolved(i)
    \/ \E i \in 1..MaxPending : PlayRejected(i)
    \/ \E k \in 1..(MaxEvents + 2) : HandlePlay(k)
    \/ \E k \in 1..(MaxEvents + 2) : HandlePause(k)

RaceSpec == Init /\ [][RaceNext]_vars

\* Uploads alone: selections of one or two files (handleFileSelect takes
\* whatever list the change event carries), several batches converting at
\* once and completing in any order, and removals in between.
FileLists ==
    {<<f>> : f \in QueryFiles}
        \cup {<<pair[1], pair[2]>> :
                 pair \in {p \in QueryFiles \X QueryFiles : p[1] # p[2]}}
UploadLimit == MaxImages + 2
RECURSIVE FilesIn(_)
FilesIn(batches) ==
    IF batches = <<>> THEN 0 ELSE Len(Head(batches)) + FilesIn(Tail(batches))
SelectFiles(files) ==
    /\ Len(base64Contents) + FilesIn(pendingBatches) + Len(ValidFiles(files))
          <= UploadLimit
    /\ HandleFileSelect(files)
UploadNext ==
    \/ \E files \in FileLists : SelectFiles(files)
    \/ \E b \in 1..UploadLimit : FileBatchDone(b)
    \/ \E b \in 1..UploadLimit : FileBatchFailed(b)
    \/ \E index \in 0..(UploadLimit - 1) : removeImage(index)
    \/ RemoveAll

UploadSpec == Init /\ [][UploadNext]_vars

\* ------------------------------------------------------------------ claims

\* The steps that are a response applied: of a search, of a page change.
SearchResponded(ok) == last.op = "searchResponse" /\ last.ok = ok
PageResponded(ok) == last.op = "pageResponse" /\ last.ok = ok

\* C1: a call of handleSearch made while the trimmed text is empty and no
\* image is uploaded sends no request and sets the validation message.
C1_EmptyInputSendsNothing ==
    [][ (/\ last'.op = "handleSearch"
         /\ Trim(searchTerm) = <<>>
         /\ Len(base64Contents) = 0)
        => (/\ inflight' = inflight
            /\ sent' = sent
            /\ error' = "Please enter a search term or upload files") ]_vars

\* C1 witness: handleSearch has just refused a text of white space only.
C1_Witness ==
    /\ last.op = "handleSearch"
    /\ ~last.accepted
    /\ searchTerm = <<SP>>
    /\ base64Contents = <<>>
    /\ error = ValidationMsg
    /\ inflight = <<>>

\* C2: once the success response of a search or of a page change has been
\* applied, no result is active and the playing map is empty.
C2_SuccessResetsPlayback ==
    (SearchResponded(TRUE) \/ PageResponded(TRUE))
        => (activeVideoId = Null /\ isPlaying = <<>>)

\* C2 witness: a page change succeeded while a video was playing (its pause
\* event is still queued) and playback is reset.
C2_Witness ==
    /\ PageResponded(TRUE)
    /\ \E k \in DOMAIN mediaEvents : mediaEvents[k].type = "pause"
    /\ activeVideoId = Null
    /\ isPlaying = <<>>

\* C3: every page request transmitted after a search request, with no other
\* search call in between, carries the query list that search transmitted;
\* so search, goToPage(2), goToPage(1) transmit the same list whatever the
\* edits of the input in between.
C3_PagesResendSearchQueries ==
    (last.op = "handlePageChange" /\ last.accepted /\ sent.search)
        => last.req.queries = sent.queries

\* C3 witness: after a search, goToPage(2) and then goToPage(1) have been
\* transmitted, and the input as edited since would build another list.
C3_Witness ==
    /\ last.op = "handlePageChange"
    /\ last.accepted
    /\ last.req.page = 1
    /\ sent.search
    /\ sent.stage = 2
    /\ last.req.queries = sent.queries
    /\ BuildQueries(searchTerm, base64Contents) # sent.queries
    /\ base64Contents # <<>>

\* C4: handlePageChange(n) with n < 1, n > totalPages or loading set sends no
\* request and changes no state of the component.
C4_RefusedPageChangeIsNoOp ==
    [][ (/\ last'.op = "handlePageChange"
         /\ (last'.newPage < 1 \/ last'.newPage > totalPages \/ loading))
        => UNCHANGED <<reactVars, envVars, sent>> ]_vars

\* C4 witness: a page within range was asked for while loading, and refused.
C4_Witness ==
    /\ last.op = "handlePageChange"
    /\ ~last.accepted
    /\ last.newPage >= 1
    /\ last.newPage <= totalPages
    /\ loading

\* C5 (as claimed): every result marked playing is the active result.
C5_PlayingIsActive ==
    \A id \in DOMAIN isPlaying : isPlaying[id] => id = activeVideoId

\* C6: a click on the control of a result A other than the active result B
\* leaves B marked not playing and its video paused, and A's position at A's
\* segment start (0 when undefined) with playback asked for; when A's play()
\* then resolves A is active and marked playing, and B is still marked not
\* playing unless B was clicked or reported playing in between.
C6_SwitchPausesSeeksAndActivates ==
    /\ (last.op = "handleVideoClick" /\ last.branch = "switch" /\ last.started)
         => /\ videos[last.id].currentTime =
                 (IF startTime(last.id) = NoStart THEN 0 ELSE startTime(last.id))
            /\ ~videos[last.id].paused
            /\ last.from # Null
                 => /\ last.from \in DOMAIN isPlaying
                    /\ ~isPlaying[last.from]
                    /\ videos[last.from].paused
    /\ (last.op = "playResolved" /\ last.play.branch = "switch")
         => /\ activeVideoId = last.play.id
            /\ last.play.id \in DOMAIN isPlaying
            /\ isPlaying[last.play.id]
            /\ (last.play.from # Null /\ last.play.quiet)
                 => /\ last.play.from \in DOMAIN isPlaying
                    /\ ~isPlaying[last.play.from]

\* C6 witness: r2 was active and playing, r1 (segment start 5) was clicked and
\* its play() has resolved.
C6_Witness ==
    /\ last.op = "playResolved"
    /\ last.play.branch = "switch"
    /\ last.play.id = "r1"
    /\ last.play.from = "r2"
    /\ last.play.fromPlaying
    /\ activeVideoId = "r1"
    /\ isPlaying = [id \in {"r1", "r2"} |-> id = "r1"]
    /\ videos["r1"].currentTime = 5
    /\ videos["r2"].paused

\* C7: after a search response with a non-empty result list is applied, the
\* results and the pagination are those returned and the error is empty.
C7_SuccessStoresResponse ==
    (SearchResponded(TRUE) /\ Len(last.data.results) > 0)
        => /\ results = last.data.results
           /\ currentPage = last.data.currentPage
           /\ totalPages = last.data.totalPages
           /\ totalResults = last.data.totalResults
           /\ error = ""

\* C7 witness: the response {[r1, r2], page 1 of 2, 25 results} was applied.
C7_Witness ==
    /\ SearchResponded(TRUE)
    /\ results = <<"r1", "r2">>
    /\ currentPage = 1
    /\ totalPages = 2
    /\ totalResults = 25
    /\ error = ""

\* C8: after a search request has failed, the results are empty and the
\* pagination is currentPage 1, totalPages 0, totalResults 0.
C8_FailureClearsResults ==
    SearchResponded(FALSE)
        => /\ results = <<>>
           /\ currentPage = 1
           /\ totalPages = 0
           /\ totalResults = 0

\* C8 witness: a search made with an uploaded image has failed.
C8_Witness ==
    /\ SearchResponded(FALSE)
    /\ results = <<>>
    /\ currentPage = 1
    /\ totalPages = 0
    /\ totalResults = 0
    /\ base64Contents # <<>>

\* C9 (as claimed): after a failed search or page change the error is the
\* body text of the response.
C9_ErrorIsBodyText ==
    (SearchResponded(FALSE) \/ PageResponded(FALSE)) => error = last.text

\* C9 (amended): after a failed search the error is the fixed search message,
\* after a failed page change the fixed pagination message, whatever the body.
C9_ErrorIsFixedMessage ==
    /\ SearchResponded(FALSE)
         => error = "An unexpected error occurred while searching"
    /\ PageResponded(FALSE)
         => error = "An error occurred while fetching more results"

\* C9 witness: a page change failed with a body that is not the message shown.
C9_Witness ==
    /\ PageResponded(FALSE)
    /\ last.text = "rate limited"
    /\ error = PageErrorMsg

\* C10: after a search response with an empty result list is applied, the
\* results are empty, the error is the no-results notice and loading is false.
C10_EmptyResultsNotice ==
    (SearchResponded(TRUE) /\ Len(last.data.results) = 0)
        => /\ results = <<>>
           /\ error = "No results found. Try adjusting your search."
           /\ loading = FALSE

\* C10 witness: an empty response replaced the results of an earlier search.
C10_Witness ==
    /\ SearchResponded(TRUE)
    /\ last.data.results = <<>>
    /\ results = <<>>
    /\ error = NoResultsMsg
    /\ ~loading
    /\ hasSearched

\* C11: every response of a search or page-change request, success or
\* failure, leaves loading false; loading is never set with no request
\* pending; and, every request completing, loading set leads to loading
\* cleared.
C11_LoadingCleared ==
    /\ []((last.op \in {"searchResponse", "pageResponse"}) => ~loading)
    /\ [](inflight = <<>> => ~loading)
    /\ (loading ~> ~loading)

\* C11 witness: a page change has failed, nothing is pending and loading is
\* false.
C11_Witness ==
    /\ PageResponded(FALSE)
    /\ inflight = <<>>
    /\ ~loading

\* C12: the query list a search builds (stored, and transmitted when the
\* request is sent) holds one text query first iff the trimmed text is not
\* empty, then one base64 query per uploaded image in upload order, each
\* with embedding model "multimodal".
C12_QueryListShape ==
    (last.op = "handleSearch" /\ last.accepted)
        => LET q == lastSearchQueries
               t == IF Trim(searchTerm) # <<>> THEN 1 ELSE 0
               n == Len(base64Contents)
           IN /\ last.via = "enter" => last.req.queries = q
              /\ Len(q) = t + n
              /\ t = 1 => q[1].type = "text"
              /\ \A i \in 1..n :
                    /\ q[t + i].type = "base64"
                    /\ q[t + i].value = base64Contents[i].base64
              /\ \A i \in 1..Len(q) : q[i].embedding_model = "multimodal"

\* C12 witness: a search sent with a word typed and two different images
\* uploaded, the PNG before the JPEG.
C12_Witness ==
    /\ last.op = "handleSearch"
    /\ last.accepted
    /\ last.via = "enter"
    /\ Trim(searchTerm) # <<>>
    /\ Len(base64Contents) = 2
    /\ base64Contents[1].file.name = "b.png"
    /\ base64Contents[2].file.name = "a.jpg"
    /\ Len(last.req.queries) = 3
    /\ last.req.queries[2].value = "QlBORw=="
    /\ last.req.queries[3].value = "QUpQRw=="

\* C13 (as claimed): the text query a search transmits has the trimmed text
\* as its value.
C13_TextQueryIsTrimmed ==
    (/\ last.op = "handleSearch"
     /\ last.accepted
     /\ last.via = "enter"
     /\ Trim(searchTerm) # <<>>)
        => /\ last.req.queries[1].type = "text"
           /\ last.req.queries[1].value = Trim(searchTerm)

\* The expanded flag of a section of a result in a disclosure map, an unset
\* entry counting as false.
Expanded(map, id, section) == id \in DOMAIN map /\ map[id][section]

\* C14: a toggle flips the flag of its (result, section) pair and leaves the
\* other section of that result and the flags of every other result as they
\* were; a second toggle of the same pair in succession returns the flag to
\* its original value.
C14_ToggleTwiceRestores ==
    last.op = "toggleSection"
        => /\ Expanded(expandedSections, last.id, last.section)
                = ~Expanded(last.before, last.id, last.section)
           /\ \A section \in Sections \ {last.section} :
                 Expanded(expandedSections, last.id, section)
                    = Expanded(last.before, last.id, section)
           /\ \A id \in Ids \ {last.id} :
                 /\ (id \in DOMAIN expandedSections) = (id \in DOMAIN last.before)
                 /\ id \in DOMAIN last.before => expandedSections[id] = last.before[id]
           /\ last.twice
                 => Expanded(expandedSections, last.id, last.section)
                       = Expanded(last.original, last.id, last.section)

\* C14 witness: the description of r1, never toggled before, has been
\* toggled twice in succession while the transcript of r1 and the
\* description of r2 are expanded.
C14_Witness ==
    /\ last.op = "toggleSection"
    /\ last.twice
    /\ last.id = "r1"
    /\ last.section = "description"
    /\ "r1" \in DOMAIN last.original
    /\ "r2" \in DOMAIN last.original
    /\ last.original["r1"] = [description |-> FALSE, transcript |-> TRUE]
    /\ last.original["r2"].description
    /\ expandedSections = last.original

\* C15 (as claimed): once a search or a page change that passes its guard
\* has begun, the error is empty; once a file selection has begun, the error
\* is empty or the notice that selection itself set.
C15_NextActionClearsError ==
    /\ (last.op = "handleSearch" /\ last.accepted /\ last.via = "enter")
          => error = ""
    /\ (last.op = "handlePageChange" /\ last.accepted) => error = ""
    /\ last.op = "handleFileSelect"
          => error \in {"", "Some files were skipped. Please upload only JPG or PNG files"}

\* C16 (as claimed): when a success response has been applied, no request is
\* in flight and totalPages > 0, the stored query list is the list of the
\* request that response answers. (The stored list changes afterwards only
\* in a search call, which puts a request in flight or empties the results.)
C16_StoredQueriesAreShown ==
    (/\ last.op \in {"searchResponse", "pageResponse"}
     /\ last.ok
     /\ inflight = <<>>
     /\ totalPages > 0)
        => lastSearchQueries = last.queries

\* C17: a response is applied as it arrives, whatever the order in which
\* the pending requests were issued: a success makes the results and the
\* pagination those it carries and resets playback, a failed search empties
\* the results and resets the pagination, and a failed page change writes
\* none of them; so the response that resolves last settles the final state.
C17_LastResponseWins ==
    [][ (last'.op \in {"searchResponse", "pageResponse"})
        => IF last'.ok
           THEN /\ results' = last'.data.results
                /\ currentPage' = last'.data.currentPage
                /\ totalPages' = last'.data.totalPages
                /\ totalResults' = last'.data.totalResults
                /\ activeVideoId' = Null
                /\ isPlaying' = <<>>
           ELSE IF last'.op = "searchResponse"
           THEN /\ results' = <<>>
                /\ currentPage' = 1
                /\ totalPages' = 0
                /\ totalResults' = 0
                /\ UNCHANGED <<activeVideoId, isPlaying>>
           ELSE UNCHANGED <<results, currentPage, totalPages, totalResults,
                            activeVideoId, isPlaying>> ]_vars

\* C17 witness: a search request was pending when a page change was issued
\* and answered; the search response arrives last, while a video plays, and
\* the results, the pagination and the playback state are those it sets.
C17_Witness ==
    /\ SearchResponded(TRUE)
    /\ inflight = <<>>
    /\ sent.search
    /\ sent.stage = 1
    /\ results = last.data.results
    /\ currentPage = last.data.currentPage
    /\ currentPage = 1
    /\ \E k \in DOMAIN mediaEvents : mediaEvents[k].type = "pause"
    /\ activeVideoId = Null
    /\ isPlaying = <<>>

\* C18: neither the call of handlePageChange nor the failure of its request
\* changes results, currentPage, totalPages, totalResults or hasSearched, and
\* the failure sets the error to the pagination message, which is not the
\* search error message.
C18_PageFailureKeepsResults ==
    [][ /\ last'.op = "handlePageChange"
          => UNCHANGED <<results, currentPage, totalPages, totalResults, hasSearched>>
        /\ (last'.op = "pageResponse" /\ ~last'.ok)
          => /\ UNCHANGED <<results, currentPage, totalPages, totalResults,
                            hasSearched>>
             /\ error' = "An error occurred while fetching more results"
             /\ error' # "An unexpected error occurred while searching" ]_vars

\* C18 witness: the change to page 2 has failed and page 1 of 2 is still
\* displayed with the pagination message.
C18_Witness ==
    /\ PageResponded(FALSE)
    /\ results = <<"r1", "r2">>
    /\ currentPage = 1
    /\ totalPages = 2
    /\ totalResults = 25
    /\ hasSearched
    /\ error = PageErrorMsg
    /\ ~loading

\* The playing map after a step differs from the one before it exactly in
\* the flag of id, which is now flag.
OnlyFlagSet(id, flag) ==
    /\ id \in DOMAIN isPlaying'
    /\ isPlaying'[id] = flag
    /\ \A other \in Ids \ {id} :
          /\ (other \in DOMAIN isPlaying') = (other \in DOMAIN isPlaying)
          /\ other \in DOMAIN isPlaying => isPlaying'[other] = isPlaying[other]

\* C19: a click on the control of the active result R pauses R's video and
\* marks R not playing when the video is playing; when the video is paused
\* it starts playback, and once play() has resolved R is marked playing.
\* Neither the click nor its continuation changes the active id or the
\* playing flag of another result.
C19_ActiveClickToggles ==
    [][ /\ (last'.op = "handleVideoClick" /\ last'.branch = "pause")
          => /\ activeVideoId = last'.id
             /\ ~videos[last'.id].paused
             /\ videos'[last'.id].paused
             /\ OnlyFlagSet(last'.id, FALSE)
             /\ activeVideoId' = last'.id
        /\ (/\ last'.op = "handleVideoClick"
            /\ last'.branch = "resume"
            /\ last'.started)
          => /\ activeVideoId = last'.id
             /\ videos[last'.id].paused
             /\ ~videos'[last'.id].paused
             /\ UNCHANGED <<activeVideoId, isPlaying>>
        /\ (last'.op = "playResolved" /\ last'.play.branch = "resume")
          => /\ OnlyFlagSet(last'.play.id, TRUE)
             /\ ~videos'[last'.play.id].paused
             /\ UNCHANGED activeVideoId ]_vars

\* C19 witness: r2, active and paused while r1 is marked not playing, was
\* clicked and its play() has resolved: r2 is active and marked playing.
C19_Witness ==
    /\ last.op = "playResolved"
    /\ last.play.branch = "resume"
    /\ last.play.id = "r2"
    /\ activeVideoId = "r2"
    /\ isPlaying = [id \in {"r1", "r2"} |-> id = "r2"]
    /\ ~videos["r2"].paused

\* C20: when the play() of a click on R is rejected, at once or after the
\* await, the catch block marks R not playing, changes no other flag and
\* leaves the active id as it is: R is not made active, and an R that was
\* active stays active, marked not playing.
C20_RejectedPlayMarksNotPlaying ==
    [][ /\ last'.op = "playRejected"
          => /\ OnlyFlagSet(last'.play.id, FALSE)
             /\ UNCHANGED activeVideoId
        /\ (/\ last'.op = "handleVideoClick"
            /\ last'.branch \in {"resume", "switch"}
            /\ ~last'.started)
          => /\ last'.id \in DOMAIN isPlaying'
             /\ ~isPlaying'[last'.id]
             /\ UNCHANGED activeVideoId
             /\ (activeVideoId = last'.id) = (last'.branch = "resume") ]_vars

\* C20 witness: r2 is active, r1 was clicked and its play() was rejected:
\* r1 is marked not playing and r2 is still active.
C20_Witness ==
    /\ last.op = "playRejected"
    /\ last.play.branch = "switch"
    /\ last.play.id = "r1"
    /\ last.play.from = "r2"
    /\ activeVideoId = "r2"
    /\ "r1" \in DOMAIN isPlaying
    /\ ~isPlaying["r1"]

\* C21: when a conversion of a batch fails, selectedFiles and base64Contents
\* are left as they were (no file of the batch is added, the images of
\* earlier batches stay) and the error is the file-processing message; the
\* batch is pending no more, so none of its files is added later.
C21_FailedBatchAddsNothing ==
    [][ last'.op = "fileBatchFailed"
        => /\ UNCHANGED <<selectedFiles, base64Contents>>
           /\ error' = "Failed to process one or more files"
           /\ Len(pendingBatches') = Len(pendingBatches) - 1
           /\ FilesIn(pendingBatches')
                 = FilesIn(pendingBatches) - Len(last'.batch) ]_vars

\* C21 witness: a batch of two files has failed while the image of an
\* earlier batch is uploaded; that image is still the only one listed.
C21_Witness ==
    /\ last.op = "fileBatchFailed"
    /\ Len(last.batch) = 2
    /\ Len(base64Contents) = 1
    /\ Len(selectedFiles) = 1
    /\ error = FileErrorMsg

\* C22 (as claimed): the active result id, when set, and every id marked
\* playing are ids of results in the displayed result list.
C22_ActiveIsDisplayed ==
    /\ activeVideoId # Null => activeVideoId \in IdsOf(results)
    /\ \A id \in DOMAIN isPlaying : isPlaying[id] => id \in IdsOf(results)

\* C23: selectedFiles and base64Contents have the same length and hold the
\* same file at each index, whatever the batches still converting and the
\* removals made in between.
C23_FileListsAgree ==
    /\ Len(selectedFiles) = Len(base64Contents)
    /\ \A i \in 1..Len(selectedFiles) : selectedFiles[i] = base64Contents[i].file

\* C23 witness: the first of two different images was removed while another
\* batch was still converting, and the lists agree on the image left.
C23_Witness ==
    /\ last.op = "removeImage"
    /\ pendingBatches # <<>>
    /\ Len(selectedFiles) = 1
    /\ Len(base64Contents) = 1
    /\ selectedFiles[1] = base64Contents[1].file
    /\ selectedFiles[1].name = "a.jpg"
    /\ base64Contents[1].base64 = "QUpQRw=="

====
